---- MODULE Spec2Model ----
(***************************************************************************)
(* Reconciliation state model of flick-sync (packages/flick-sync/src/      *)
(* state.rs): the ThumbnailState and DownloadState artifact machines and   *)
(* the update / delete protocol of ShowState, CollectionState and          *)
(* VideoState, run against a local filesystem and a remote transcode       *)
(* server.                                                                 *)
(*                                                                         *)
(* One entity record is reconciled per behaviour.  Every call is one       *)
(* atomic step; the I/O it performs (stat, remove_file, transcode_session, *)
(* cancel) and the resets to None are recorded, in order, in `log`, and    *)
(* the world before the call is kept in `pre`.  (Spec)                     *)
(*                                                                         *)
(* The list/map codec of ServerState (from_list, into_list) is run on its  *)
(* own on one collection.  (CodecSpec)                                     *)
(*                                                                         *)
(* Two calls on two distinct records, a show and a video, run concurrently *)
(* on one store: each is suspended at every .await of an I/O and the two   *)
(* are resumed in any order.  (ParSpec)                                    *)
(***************************************************************************)
EXTENDS Integers, Sequences, FiniteSets, TLC

\* ------------------------------------------------------------------ bounds
\* Timestamps are seconds since epoch.  A loaded record was last updated at
\* time 1; the updated_at of a remote snapshot lies in 0..MaxTime.
MaxTime == 2
\* A video has 1..MaxParts parts.
MaxParts == 1
\* The records of a persisted array have ids 1..MaxId, and an array holds at
\* most MaxLen records.
MaxId == 2
MaxLen == 3

RemoteTimes == 0..MaxTime

\* Option<T>: None is the empty set, Some(x) the singleton.
Nothing == {}
Some(x) == {x}
IsSome(o) == o # {}
Unwrap(o) == CHOOSE x \in o : TRUE

\* ------------------------------------------------------------ environment
\* What is at a path: a regular file, a regular file that cannot be removed
\* ("locked"), something that is not a regular file (remove_file fails on
\* it), nothing, or a path that cannot be accessed (stat and remove_file fail
\* with an error other than NotFound).
FileStates == {"file", "locked", "dir", "missing", "denied"}
\* A transcode session on the server: it can be fetched and cancelled, it
\* can be fetched but its cancel fails ("stuck"), or it cannot be fetched.
SessionStates == {"active", "stuck", "gone"}

\* Paths, sessions and artifacts are numbered: the thumbnail is artifact 0 and
\* owns path 0; part i is artifact i and owns path i and (while transcoding)
\* session i.

Ev(ev, a, obj, res) == [ev |-> ev, a |-> a, obj |-> obj, res |-> res]

\* fs::metadata(root.join(path)): Ok(stats) with stats.is_file() or not,
\* Err(NotFound), or another Err.
Metadata(f) ==
    CASE f \in {"file", "locked"} -> "file"
      [] f = "dir" -> "notfile"
      [] f = "missing" -> "notfound"
      [] f = "denied" -> "error"

\* A remove_file that resolves every path to the same file, the one at
\* path 0.
RemoveFile_SamePath(c, a, p) ==
    LET res == CASE c.fs[0] = "file" -> "ok"
                 [] c.fs[0] = "missing" -> "notfound"
                 [] OTHER -> "error"
    IN [c EXCEPT !.fs[0] = IF res = "ok" THEN "missing" ELSE @,
                 !.log = Append(@, Ev("remove", a, p, res))]

\* fs::remove_file(root.join(path)) and the warning logged when it fails.
RemoveFile(c, a, p) ==
    LET res == CASE c.fs[p] = "file" -> "ok"
                 [] c.fs[p] = "missing" -> "notfound"
                 [] OTHER -> "error"
    IN [c EXCEPT !.fs[p] = IF res = "ok" THEN "missing" ELSE @,
                 !.log = Append(@, Ev("remove", a, p, res))]

\* `if let Ok(session) = server.transcode_session(id) { session.cancel() }`
CancelSession(c, a, sid) ==
    LET fetched == c.sess[sid] # "gone"
        c1 == [c EXCEPT !.log = Append(@, Ev("fetch", a, sid,
                                            IF fetched THEN "ok" ELSE "error"))]
    IN IF fetched
       THEN [c1 EXCEPT !.sess[sid] = IF @ = "active" THEN "gone" ELSE @,
                       !.log = Append(@, Ev("cancel", a, sid,
                                            IF c.sess[sid] = "active" THEN "ok"
                                            ELSE "error"))]
       ELSE c1

\* --------------------------------------------------------- artifact states
ThumbNone == [state |-> "None"]
ThumbDownloaded(p) == [state |-> "Downloaded", path |-> p]
ThumbnailStates == {ThumbNone, ThumbDownloaded(0)}

DownloadNone == [state |-> "None"]
Downloading(p) == [state |-> "Downloading", path |-> p]
Transcoding(s, p) == [state |-> "Transcoding", session_id |-> s, path |-> p]
Downloaded(p) == [state |-> "Downloaded", path |-> p]
Transcoded(p) == [state |-> "Transcoded", path |-> p]
DownloadStates(i) ==
    {DownloadNone, Downloading(i), Transcoding(i, i), Downloaded(i), Transcoded(i)}

\* `*self = ThumbnailState::None` / `*self = DownloadState::None`
SetNone(c, a, none) ==
    [c EXCEPT !.st = none, !.log = Append(@, Ev("none", a, a, "ok"))]

\* ThumbnailState::verify with the NotFound test inverted.
ThumbnailState_verify_NotNotFound(c, a) ==
    IF c.st.state = "Downloaded"
    THEN LET m == Metadata(c.fs[c.st.path])
             c1 == [c EXCEPT !.log = Append(@, Ev("stat", a, c.st.path, m))]
         IN IF m = "error" THEN SetNone(c1, a, ThumbNone) ELSE c1
    ELSE c

\* ThumbnailState::verify that clears away what it finds at the path when
\* that is not a regular file.
ThumbnailState_verify_RemoveNotFile(c, a) ==
    IF c.st.state = "Downloaded"
    THEN LET m == Metadata(c.fs[c.st.path])
             c1 == [c EXCEPT !.log = Append(@, Ev("stat", a, c.st.path, m))]
         IN IF m = "file" THEN c1
            ELSE IF m = "notfile"
                 THEN SetNone(RemoveFile(c1, a, c.st.path), a, ThumbNone)
            ELSE IF m = "notfound" THEN SetNone(c1, a, ThumbNone)
            ELSE c1
    ELSE c

\* ThumbnailState::verify that treats every Err of fs::metadata as NotFound.
ThumbnailState_verify_ResetOnAnyError(c, a) ==
    IF c.st.state = "Downloaded"
    THEN LET m == Metadata(c.fs[c.st.path])
             c1 == [c EXCEPT !.log = Append(@, Ev("stat", a, c.st.path, m))]
         IN IF m \in {"file", "notfile"} THEN c1
            ELSE SetNone(c1, a, ThumbNone)
    ELSE c

\* ThumbnailState::verify on artifact a.  c = [st, fs, sess, log].
ThumbnailState_verify(c, a) ==
    IF c.st.state = "Downloaded"
    THEN LET m == Metadata(c.fs[c.st.path])
             c1 == [c EXCEPT !.log = Append(@, Ev("stat", a, c.st.path, m))]
         IN IF m \in {"file", "notfile"} THEN c1
            ELSE IF m = "notfound" THEN SetNone(c1, a, ThumbNone)
            ELSE c1
    ELSE c

\* ThumbnailState::delete that resets the state only when the removal did
\* not fail.
ThumbnailState_delete_KeepOnError(c, a) ==
    IF c.st.state = "Downloaded"
    THEN LET c1 == RemoveFile(c, a, c.st.path)
         IN IF c1.log[Len(c1.log)].res = "error" THEN c1
            ELSE SetNone(c1, a, ThumbNone)
    ELSE c

\* ThumbnailState::delete that removes the file and forgets
\* `*self = ThumbnailState::None`.
ThumbnailState_delete_NoReset(c, a) ==
    IF c.st.state = "Downloaded" THEN RemoveFile(c, a, c.st.path) ELSE c

\* ThumbnailState::delete that resets the state only after remove_file
\* returned Ok.
ThumbnailState_delete_ResetOnSuccess(c, a) ==
    IF c.st.state = "Downloaded"
    THEN LET c1 == RemoveFile(c, a, c.st.path)
         IN IF c1.log[Len(c1.log)].res = "ok" THEN SetNone(c1, a, ThumbNone)
            ELSE c1
    ELSE c

\* ThumbnailState::delete
ThumbnailState_delete(c, a) ==
    IF c.st.state = "Downloaded"
    THEN SetNone(RemoveFile(c, a, c.st.path), a, ThumbNone)
    ELSE c

\* DownloadState::verify that forgets the transcode session of a vanished
\* file.
DownloadState_verify_NoCancel(c, a) ==
    IF c.st.state = "None" THEN c
    ELSE LET m == Metadata(c.fs[c.st.path])
             c1 == [c EXCEPT !.log = Append(@, Ev("stat", a, c.st.path, m))]
         IN IF m = "notfound" THEN SetNone(c1, a, DownloadNone) ELSE c1

\* DownloadState::verify that returns without the reset when the cancel of
\* the session did not succeed.
DownloadState_verify_KeepOnCancelError(c, a) ==
    IF c.st.state = "None" THEN c
    ELSE LET m == Metadata(c.fs[c.st.path])
             c1 == [c EXCEPT !.log = Append(@, Ev("stat", a, c.st.path, m))]
         IN IF m # "notfound" THEN c1
            ELSE LET c2 == IF c.st.state = "Transcoding"
                           THEN CancelSession(c1, a, c.st.session_id)
                           ELSE c1
                 IN IF c2.log[Len(c2.log)].res = "error" THEN c2
                    ELSE SetNone(c2, a, DownloadNone)

\* DownloadState::verify that also gives up a path that holds something
\* other than a regular file.
DownloadState_verify_ResetNotFile(c, a) ==
    IF c.st.state = "None" THEN c
    ELSE LET m == Metadata(c.fs[c.st.path])
             c1 == [c EXCEPT !.log = Append(@, Ev("stat", a, c.st.path, m))]
         IN IF m \in {"file", "error"} THEN c1
            ELSE LET c2 == IF m = "notfound" /\ c.st.state = "Transcoding"
                           THEN CancelSession(c1, a, c.st.session_id)
                           ELSE c1
                 IN SetNone(c2, a, DownloadNone)

\* DownloadState::verify that treats every Err of fs::metadata as NotFound.
DownloadState_verify_ResetOnAnyError(c, a) ==
    IF c.st.state = "None" THEN c
    ELSE LET m == Metadata(c.fs[c.st.path])
             c1 == [c EXCEPT !.log = Append(@, Ev("stat", a, c.st.path, m))]
         IN IF m \in {"file", "notfile"} THEN c1
            ELSE LET c2 == IF c.st.state = "Transcoding"
                           THEN CancelSession(c1, a, c.st.session_id)
                           ELSE c1
                 IN SetNone(c2, a, DownloadNone)

\* DownloadState::verify that records a Downloading part whose file it
\* finds as Downloaded.
DownloadState_verify_Promote(c, a) ==
    IF c.st.state = "None" THEN c
    ELSE LET m == Metadata(c.fs[c.st.path])
             c1 == [c EXCEPT !.log = Append(@, Ev("stat", a, c.st.path, m))]
         IN IF m = "file" /\ c.st.state = "Downloading"
            THEN [c1 EXCEPT !.st = Downloaded(c.st.path)]
            ELSE IF m # "notfound" THEN c1
            ELSE LET c2 == IF c.st.state = "Transcoding"
                           THEN CancelSession(c1, a, c.st.session_id)
                           ELSE c1
                 IN SetNone(c2, a, DownloadNone)

\* DownloadState::verify that cancels the session of a vanished file and
\* forgets `*self = DownloadState::None`.
DownloadState_verify_NoReset(c, a) ==
    IF c.st.state = "None" THEN c
    ELSE LET m == Metadata(c.fs[c.st.path])
             c1 == [c EXCEPT !.log = Append(@, Ev("stat", a, c.st.path, m))]
         IN IF m # "notfound" THEN c1
            ELSE IF c.st.state = "Transcoding"
                 THEN CancelSession(c1, a, c.st.session_id)
                 ELSE SetNone(c1, a, DownloadNone)

\* DownloadState::verify
DownloadState_verify(c, a) ==
    IF c.st.state = "None" THEN c
    ELSE LET m == Metadata(c.fs[c.st.path])
             c1 == [c EXCEPT !.log = Append(@, Ev("stat", a, c.st.path, m))]
         IN IF m \in {"file", "notfile"} THEN c1
            ELSE IF m # "notfound" THEN c1
            ELSE LET c2 == IF c.st.state = "Transcoding"
                           THEN CancelSession(c1, a, c.st.session_id)
                           ELSE c1
                 IN SetNone(c2, a, DownloadNone)

\* DownloadState::delete that returns early, state untouched, when the
\* removal fails.
DownloadState_delete_KeepOnError(c, a) ==
    IF c.st.state = "None" THEN c
    ELSE LET c1 == RemoveFile(c, a, c.st.path)
             c2 == IF c.st.state = "Transcoding"
                   THEN CancelSession(c1, a, c.st.session_id)
                   ELSE c1
         IN IF c1.log[Len(c1.log)].res = "error" THEN c1
            ELSE SetNone(c2, a, DownloadNone)

\* DownloadState::delete that cancels the session only after a removal that
\* succeeded.
DownloadState_delete_CancelAfterRemoved(c, a) ==
    IF c.st.state = "None" THEN c
    ELSE LET c1 == RemoveFile(c, a, c.st.path)
             c2 == IF c.st.state = "Transcoding" /\ c1.log[Len(c1.log)].res = "ok"
                   THEN CancelSession(c1, a, c.st.session_id)
                   ELSE c1
         IN SetNone(c2, a, DownloadNone)

\* DownloadState::delete
DownloadState_delete(c, a) ==
    IF c.st.state = "None" THEN c
    ELSE LET c1 == RemoveFile(c, a, c.st.path)
             c2 == IF c.st.state = "Transcoding"
                   THEN CancelSession(c1, a, c.st.session_id)
                   ELSE c1
         IN SetNone(c2, a, DownloadNone)

\* ---------------------------------------------------------- entity records
\* e = [rec, fs, sess, log, result] is a call in progress on record rec.
ThumbCtx(e) == [st |-> e.rec.thumbnail, fs |-> e.fs, sess |-> e.sess, log |-> e.log]
WithThumb(e, c) ==
    [e EXCEPT !.rec.thumbnail = c.st, !.fs = c.fs, !.sess = c.sess, !.log = c.log]
PartCtx(e, i) ==
    [st |-> e.rec.parts[i].download, fs |-> e.fs, sess |-> e.sess, log |-> e.log]
WithPart(e, i, c) ==
    [e EXCEPT !.rec.parts[i].download = c.st, !.fs = c.fs, !.sess = c.sess,
              !.log = c.log]

\* Option::unwrap on None: the call unwinds where it stands.
Panic(e) == [e EXCEPT !.result = "panic"]

\* The comparison written with >= .
IsStale_OrEqual(updated_at, last_updated) == updated_at >= last_updated

\* `remote.updated_at > self.last_updated`
IsStale(updated_at, last_updated) == updated_at > last_updated

\* The `from` constructors return Some(record), or Nothing where an
\* Option::unwrap on None or the panic! of VideoState::from unwinds them.

\* CollectionState::from
CollectionState_from(collection) ==
    IF IsSome(collection.library_section_id) /\ IsSome(collection.updated_at)
    THEN Some([kind |-> "collection", id |-> 10,
               library |-> Unwrap(collection.library_section_id),
               title |-> collection.title, items |-> {},
               last_updated |-> Unwrap(collection.updated_at),
               thumbnail |-> ThumbNone])
    ELSE Nothing

\* CollectionState::update
CollectionState_update(e, collection) ==
    LET e1 == [e EXCEPT !.rec.title = collection.title]
        e2 == WithThumb(e1, ThumbnailState_verify(ThumbCtx(e1), 0))
    IN IF e2.rec.thumbnail # ThumbNone
       THEN IF ~IsSome(collection.updated_at) THEN Panic(e2)
            ELSE IF IsStale(Unwrap(collection.updated_at), e2.rec.last_updated)
                 THEN WithThumb(e2, ThumbnailState_delete(ThumbCtx(e2), 0))
                 ELSE e2
       ELSE e2

\* CollectionState::delete
CollectionState_delete(e) ==
    LET e1 == WithThumb(e, ThumbnailState_verify(ThumbCtx(e), 0))
    IN IF e1.rec.thumbnail # ThumbNone
       THEN WithThumb(e1, ThumbnailState_delete(ThumbCtx(e1), 0))
       ELSE e1

\* SeasonState::from
SeasonState_from(season) ==
    IF IsSome(season.parent_rating_key) /\ IsSome(season.index)
    THEN Some([kind |-> "season", id |-> 10,
               show |-> Unwrap(season.parent_rating_key),
               index |-> Unwrap(season.index), title |-> season.title])
    ELSE Nothing

\* SeasonState::update
SeasonState_update(e, season) ==
    IF ~IsSome(season.index) THEN Panic(e)
    ELSE LET e1 == [e EXCEPT !.rec.index = Unwrap(season.index)]
         IN IF ~IsSome(season.parent_rating_key) THEN Panic(e1)
            ELSE [e1 EXCEPT !.rec.show = Unwrap(season.parent_rating_key),
                            !.rec.title = season.title]

\* ShowState::from
ShowState_from(show) ==
    IF IsSome(show.year) /\ IsSome(show.library_section_id)
       /\ IsSome(show.updated_at)
    THEN Some([kind |-> "show", id |-> 10,
               library |-> Unwrap(show.library_section_id),
               title |-> show.title, year |-> Unwrap(show.year),
               last_updated |-> Unwrap(show.updated_at),
               thumbnail |-> ThumbNone])
    ELSE Nothing

\* ShowState::update with `self.last_updated = metadata.updated_at.unwrap()`
\* added after the comparison.
ShowState_update_AdoptAlways(e, show) ==
    IF ~IsSome(show.year) THEN Panic(e)
    ELSE LET e1 == [e EXCEPT !.rec.year = Unwrap(show.year),
                             !.rec.title = show.title]
             e2 == WithThumb(e1, ThumbnailState_verify(ThumbCtx(e1), 0))
         IN IF ~IsSome(show.updated_at) THEN Panic(e2)
            ELSE LET e3 == IF e2.rec.thumbnail # ThumbNone
                              /\ IsStale(Unwrap(show.updated_at), e2.rec.last_updated)
                           THEN WithThumb(e2, ThumbnailState_delete(ThumbCtx(e2), 0))
                           ELSE e2
                 IN [e3 EXCEPT !.rec.last_updated = Unwrap(show.updated_at)]

\* ShowState::update
ShowState_update(e, show) ==
    IF ~IsSome(show.year) THEN Panic(e)
    ELSE LET e1 == [e EXCEPT !.rec.year = Unwrap(show.year),
                             !.rec.title = show.title]
             e2 == WithThumb(e1, ThumbnailState_verify(ThumbCtx(e1), 0))
         IN IF e2.rec.thumbnail # ThumbNone
            THEN IF ~IsSome(show.updated_at) THEN Panic(e2)
                 ELSE IF IsStale(Unwrap(show.updated_at), e2.rec.last_updated)
                      THEN WithThumb(e2, ThumbnailState_delete(ThumbCtx(e2), 0))
                      ELSE e2
            ELSE e2

\* ShowState::delete
ShowState_delete(e) ==
    LET e1 == WithThumb(e, ThumbnailState_verify(ThumbCtx(e), 0))
    IN IF e1.rec.thumbnail # ThumbNone
       THEN WithThumb(e1, ThumbnailState_delete(ThumbCtx(e1), 0))
       ELSE e1

\* MovieState::from
MovieState_from(metadata) ==
    IF IsSome(metadata.library_section_id) /\ IsSome(metadata.year)
    THEN Some([type |-> "movie", library |-> Unwrap(metadata.library_section_id),
               year |-> Unwrap(metadata.year)])
    ELSE Nothing

\* MovieState::update
MovieState_update(e, metadata) ==
    IF ~IsSome(metadata.year) THEN Panic(e)
    ELSE [e EXCEPT !.rec.detail.year = Unwrap(metadata.year)]

\* EpisodeState::from
EpisodeState_from(metadata) ==
    IF IsSome(metadata.parent_rating_key) /\ IsSome(metadata.index)
    THEN Some([type |-> "episode", season |-> Unwrap(metadata.parent_rating_key),
               index |-> Unwrap(metadata.index)])
    ELSE Nothing

\* EpisodeState::update
EpisodeState_update(e, metadata) ==
    IF ~IsSome(metadata.parent_rating_key) THEN Panic(e)
    ELSE LET e1 == [e EXCEPT !.rec.detail.season = Unwrap(metadata.parent_rating_key)]
         IN IF ~IsSome(metadata.index) THEN Panic(e1)
            ELSE [e1 EXCEPT !.rec.detail.index = Unwrap(metadata.index)]

\* VideoState::from of an item whose first media has n parts, each with a
\* duration.  (air_date and media_id are read by no operation and are not
\* kept in the record.)
VideoState_from(item, n) ==
    LET detail == CASE item.metadata_type = "movie" -> MovieState_from(item)
                    [] item.metadata_type = "episode" -> EpisodeState_from(item)
                    [] OTHER -> Nothing
    IN IF IsSome(detail) /\ IsSome(item.originally_available_at)
          /\ IsSome(item.updated_at)
       THEN Some([kind |-> "video", id |-> 10, title |-> item.title,
                  detail |-> Unwrap(detail), thumbnail |-> ThumbNone,
                  last_updated |-> Unwrap(item.updated_at),
                  parts |-> [i \in 1..n |-> [duration |-> 1,
                                             download |-> DownloadNone]]])
       ELSE Nothing

\* `for part in self.parts.iter_mut() { part.download.verify(server, root) }`
RECURSIVE VerifyParts(_, _)
VerifyParts(e, i) ==
    IF i > Len(e.rec.parts) THEN e
    ELSE VerifyParts(WithPart(e, i, DownloadState_verify(PartCtx(e, i), i)),
                     i + 1)

\* The loop of the staleness branch of VideoState::update:
\* `if part.download != DownloadState::None { part.download.verify(server, root) }`
RECURSIVE InvalidateParts(_, _)
InvalidateParts(e, i) ==
    IF i > Len(e.rec.parts) THEN e
    ELSE InvalidateParts(
             IF e.rec.parts[i].download # DownloadNone
             THEN WithPart(e, i, DownloadState_verify(PartCtx(e, i), i))
             ELSE e,
             i + 1)

\* VideoState::update that compares the timestamps and deletes the
\* thumbnail before it verifies the parts.
VideoState_update_CompareFirst(e, item) ==
    LET e1 == [e EXCEPT !.rec.title = item.title]
        e2 == IF e1.rec.detail.type = "movie"
              THEN MovieState_update(e1, item)
              ELSE EpisodeState_update(e1, item)
    IN IF e2.result = "panic" THEN e2
       ELSE LET e3 == WithThumb(e2, ThumbnailState_verify(ThumbCtx(e2), 0))
            IN IF ~IsSome(item.updated_at) THEN Panic(e3)
               ELSE IF IsStale(Unwrap(item.updated_at), e3.rec.last_updated)
                    THEN LET e4 == IF e3.rec.thumbnail # ThumbNone
                                   THEN WithThumb(e3, ThumbnailState_delete(
                                                          ThumbCtx(e3), 0))
                                   ELSE e3
                         IN InvalidateParts(VerifyParts(e4, 1), 1)
                    ELSE VerifyParts(e3, 1)

\* VideoState::update
VideoState_update(e, item) ==
    LET e1 == [e EXCEPT !.rec.title = item.title]
        e2 == IF e1.rec.detail.type = "movie"
              THEN MovieState_update(e1, item)
              ELSE EpisodeState_update(e1, item)
    IN IF e2.result = "panic" THEN e2
       ELSE LET e3 == WithThumb(e2, ThumbnailState_verify(ThumbCtx(e2), 0))
                e4 == VerifyParts(e3, 1)
            IN IF ~IsSome(item.updated_at) THEN Panic(e4)
               ELSE IF IsStale(Unwrap(item.updated_at), e4.rec.last_updated)
                    THEN LET e5 == IF e4.rec.thumbnail # ThumbNone
                                   THEN WithThumb(e4, ThumbnailState_delete(
                                                          ThumbCtx(e4), 0))
                                   ELSE e4
                         IN InvalidateParts(e5, 1)
                    ELSE e4

\* Every call suspends at each I/O and something else can act on the store
\* meanwhile: the files at the paths in gone are removed by someone else.
Vanish(e, gone) ==
    [e EXCEPT !.fs = [p \in DOMAIN @ |-> IF p \in gone THEN "missing" ELSE @[p]]]

\* VideoState::update during which the files in gone disappear after the
\* verify of every part and before the staleness branch.
VideoState_update_race(e, item, gone) ==
    LET e1 == [e EXCEPT !.rec.title = item.title]
        e2 == IF e1.rec.detail.type = "movie"
              THEN MovieState_update(e1, item)
              ELSE EpisodeState_update(e1, item)
    IN IF e2.result = "panic" THEN e2
       ELSE LET e3 == WithThumb(e2, ThumbnailState_verify(ThumbCtx(e2), 0))
                e4 == Vanish(VerifyParts(e3, 1), gone)
            IN IF ~IsSome(item.updated_at) THEN Panic(e4)
               ELSE IF IsStale(Unwrap(item.updated_at), e4.rec.last_updated)
                    THEN LET e5 == IF e4.rec.thumbnail # ThumbNone
                                   THEN WithThumb(e4, ThumbnailState_delete(
                                                          ThumbCtx(e4), 0))
                                   ELSE e4
                         IN InvalidateParts(e5, 1)
                    ELSE e4

\* The loop of VideoState::delete during which the file of a part in gone
\* disappears between the verify and the delete of that part.
RECURSIVE DeleteParts_race(_, _, _)
DeleteParts_race(e, i, gone) ==
    IF i > Len(e.rec.parts) THEN e
    ELSE LET e1 == WithPart(e, i, DownloadState_verify(PartCtx(e, i), i))
             e1v == Vanish(e1, gone \cap {i})
             e2 == IF e1v.rec.parts[i].download # DownloadNone
                   THEN WithPart(e1v, i, DownloadState_delete(PartCtx(e1v, i), i))
                   ELSE e1v
         IN DeleteParts_race(e2, i + 1, gone)

\* VideoState::delete with those disappearances.
VideoState_delete_race(e, gone) ==
    LET e1 == WithThumb(e, ThumbnailState_verify(ThumbCtx(e), 0))
        e2 == IF e1.rec.thumbnail # ThumbNone
              THEN WithThumb(e1, ThumbnailState_delete(ThumbCtx(e1), 0))
              ELSE e1
    IN DeleteParts_race(e2, 1, gone)

\* The loop of VideoState::delete: verify, then delete what is not None.
RECURSIVE DeleteParts(_, _)
DeleteParts(e, i) ==
    IF i > Len(e.rec.parts) THEN e
    ELSE LET e1 == WithPart(e, i, DownloadState_verify(PartCtx(e, i), i))
             e2 == IF e1.rec.parts[i].download # DownloadNone
                   THEN WithPart(e1, i, DownloadState_delete(PartCtx(e1, i), i))
                   ELSE e1
         IN DeleteParts(e2, i + 1)

\* VideoState::delete
VideoState_delete(e) ==
    LET e1 == WithThumb(e, ThumbnailState_verify(ThumbCtx(e), 0))
        e2 == IF e1.rec.thumbnail # ThumbNone
              THEN WithThumb(e1, ThumbnailState_delete(ThumbCtx(e1), 0))
              ELSE e1
    IN DeleteParts(e2, 1)

\* ------------------------------------------------------- remote snapshots
\* Metadata comes in generations: a loaded record holds the values of
\* generation 1 (title "a", year 1, ...), the remote now reports generation 2.
TitleOf(v) == IF v = 1 THEN "a" ELSE "b"

\* The Metadata of a fetched item of generation v whose metadata_type is
\* type ("clip" stands for every type that is neither a movie nor an
\* episode, show, season or collection), with the fields in miss not reported
\* by the server and updated_at = ts.
Snapshot(type, v, miss, ts) ==
    [metadata_type |-> type,
     title |-> TitleOf(v),
     year |-> IF "year" \in miss THEN Nothing ELSE Some(v),
     library_section_id |-> IF "library" \in miss THEN Nothing ELSE Some(v),
     originally_available_at |-> IF "air_date" \in miss THEN Nothing ELSE Some(v),
     parent_rating_key |-> IF "parent" \in miss THEN Nothing ELSE Some(v),
     index |-> IF "index" \in miss THEN Nothing ELSE Some(v),
     updated_at |-> ts]

\* The optional fields the update of each record type unwraps besides
\* updated_at.
Unwrapped(type) ==
    CASE type = "show" -> {"year"}
      [] type = "collection" -> {}
      [] type = "movie" -> {"year"}
      [] type = "episode" -> {"parent", "index"}
      [] type = "season" -> {"index", "parent"}

\* The snapshots a record of that type is updated with: the complete ones,
\* one without updated_at, one without each other field the update
\* unwraps, and for a video one whose item is of another type.
SnapshotsFor(type) ==
    {Snapshot(type, 2, {}, Some(t)) : t \in RemoteTimes}
    \cup {Snapshot(type, 2, {}, Nothing)}
    \cup {Snapshot(type, 2, {f}, Some(0)) : f \in Unwrapped(type)}
    \cup IF type \in {"movie", "episode"}
         THEN {Snapshot("clip", 2, {}, Some(0))}
         ELSE {}

\* The optional fields the `from` of each type unwraps besides updated_at.
FromUnwrapped(type) ==
    CASE type = "show" -> {"year", "library"}
      [] type = "collection" -> {"library"}
      [] type = "season" -> {"parent", "index"}
      [] type = "movie" -> {"library", "year", "air_date"}
      [] type = "episode" -> {"parent", "index", "air_date"}
      [] type = "clip" -> {}

\* The snapshots a record is constructed from.
FromSnapshots(type) ==
    {Snapshot(type, 2, {}, Some(t)) : t \in RemoteTimes}
    \cup {Snapshot(type, 2, {}, Nothing)}
    \cup {Snapshot(type, 2, {f}, Some(0)) : f \in FromUnwrapped(type)}

Complete(s) ==
    /\ IsSome(s.year) /\ IsSome(s.parent_rating_key) /\ IsSome(s.index)
    /\ IsSome(s.updated_at)

\* ----------------------------------------------------------------- state
VARIABLES
    rec,     \* the entity record (ShowState, CollectionState or VideoState)
    fs,      \* path -> what fs::metadata reports for it
    sess,    \* transcode session id -> state on the server
    call,    \* the last call made on the record and its arguments
    pre,     \* rec, fs and sess as they were when that call started
    log,     \* the I/O and the resets to None of that call, in order
    result,  \* "ok" when it returned, "panic" when it unwound
    repeat,  \* that call was an update with the snapshot of the update before it
    recached,\* Some(a) when that call was an update with the snapshot of the
             \* update after which artifact a was cached again, else Nothing
    list,    \* a collection of ServerState as the persisted document holds
             \* it: Some(array of records), Nothing when the field is absent
    map,     \* the same collection in memory: id -> record
    wrote,   \* Some(the map `list` was serialized from), else Nothing
    step,    \* the last call of the codec
    tasks    \* the two calls in progress of ParSpec

vars == <<rec, fs, sess, call, pre, log, result, repeat, recached,
          list, map, wrote, step, tasks>>

ShowRec(v, t, th) ==
    [kind |-> "show", id |-> 10, library |-> v, title |-> TitleOf(v), year |-> v,
     last_updated |-> t, thumbnail |-> th]

CollectionRec(v, t, th) ==
    [kind |-> "collection", id |-> 10, library |-> v, title |-> TitleOf(v),
     items |-> {}, last_updated |-> t, thumbnail |-> th]

SeasonRec(id, v) ==
    [kind |-> "season", id |-> id, show |-> v, index |-> v, title |-> TitleOf(v)]

VideoDetail(type, v) ==
    IF type = "movie" THEN [type |-> "movie", library |-> v, year |-> v]
    ELSE [type |-> "episode", season |-> v, index |-> v]

VideoRec(type, v, t, th, downloads) ==
    [kind |-> "video", id |-> 10, title |-> TitleOf(v), detail |-> VideoDetail(type, v),
     thumbnail |-> th, last_updated |-> t,
     parts |-> [i \in DOMAIN downloads |-> [duration |-> 1, download |-> downloads[i]]]]

DownloadSeqs ==
    UNION {{d \in [1..n -> UNION {DownloadStates(i) : i \in 1..n}] :
              \A i \in 1..n : d[i] \in DownloadStates(i)} : n \in 1..MaxParts}

\* Records as a persisted snapshot holds them.
Records ==
    {ShowRec(1, 1, th) : th \in ThumbnailStates}
    \cup {CollectionRec(1, 1, th) : th \in ThumbnailStates}
    \cup UNION {{VideoRec(type, 1, 1, th, d) : th \in ThumbnailStates, d \in DownloadSeqs} :
                 type \in {"movie", "episode"}}
    \cup {SeasonRec(10, 1)}

\* The item is not in its collection: no record of it exists yet.
Absent == [kind |-> "absent"]

NParts(r) == IF r.kind = "video" THEN Len(r.parts) ELSE 0
Artifact(r, a) == IF a = 0 THEN r.thumbnail ELSE r.parts[a].download
Type(r) == IF r.kind = "video" THEN r.detail.type ELSE r.kind
\* The records that own a thumbnail and a last_updated, and their artifacts.
Reconciled(r) == r.kind \in {"show", "collection", "video"}
Artifacts(r) == IF Reconciled(r) THEN 0..NParts(r) ELSE {}
Live(st) == st.state # "None"

\* ------------------------------------------------------------- list codec
\* ListItem::id
ListItem_id(v) == v.id

\* The records of a persisted array (here SeasonState; the codec is generic
\* in the record type) and the arrays a document can hold, repeated ids
\* included.
ListRecords == {SeasonRec(id, v) : id \in 1..MaxId, v \in {1, 2}}
Lists == UNION {[1..n -> ListRecords] : n \in 0..MaxLen}
\* The maps the program builds: every record under its own id.
Maps ==
    UNION {{m \in [K -> ListRecords] : \A k \in K : ListItem_id(m[k]) = k} :
             K \in SUBSET (1..MaxId)}

\* from_list keyed by the position of the record in the array.
from_list_KeyByPosition(l) == [k \in DOMAIN l |-> l[k]]

\* from_list keyed by the parent reference of the record.
from_list_KeyByShow(l) ==
    LET keys == {l[i].show : i \in DOMAIN l}
        last(k) == CHOOSE i \in DOMAIN l :
                       /\ l[i].show = k
                       /\ \A j \in DOMAIN l : l[j].show = k => j <= i
    IN [k \in keys |-> l[last(k)]]

\* from_list: `.map(|v| (v.id(), v)).collect()` into a HashMap inserts the
\* pairs in array order, a later pair replacing an earlier one of the same key.
from_list(l) ==
    LET keys == {ListItem_id(l[i]) : i \in DOMAIN l}
        last(k) == CHOOSE i \in DOMAIN l :
                       /\ ListItem_id(l[i]) = k
                       /\ \A j \in DOMAIN l : ListItem_id(l[j]) = k => j <= i
    IN [k \in keys |-> l[last(k)]]

\* into_list: `map.values().collect()`, the values in the iteration order of
\* the HashMap, which is arbitrary: the set of arrays it can produce.
into_list(m) ==
    LET n == Cardinality(DOMAIN m)
    IN {[i \in 1..n |-> m[p[i]]] :
           p \in {q \in [1..n -> DOMAIN m] : \A k \in DOMAIN m : \E i \in 1..n : q[i] = k}}

\* The paths and sessions a record can own: a record yet to be constructed
\* can get up to MaxParts parts.
Slots(r) == IF r = Absent THEN MaxParts ELSE NParts(r)

\* No call of the codec is modelled: the reconciliation of one record.
CodecIdle ==
    /\ list = Nothing /\ map = << >> /\ wrote = Nothing /\ step = "idle"

\* No two calls run concurrently.
ParIdle == tasks = << >>

\* A loaded record, or an item with no record yet, with the files and
\* sessions the artifacts refer to in any condition; paths and sessions no
\* artifact refers to are absent.  (The thumbnail of a video and the parts
\* after its first are a file, a locked file or missing; the other kinds of
\* path are met at the thumbnails of shows and collections and at the first
\* part, and so is a session whose cancel fails.)
Init ==
    /\ rec \in Records \cup {Absent}
    /\ fs \in [0..Slots(rec) -> FileStates]
    /\ \A a \in DOMAIN fs :
          (a \notin Artifacts(rec) \/ ~Live(Artifact(rec, a))) => fs[a] = "missing"
    /\ rec.kind = "video" => fs[0] \in {"file", "locked", "missing"}
    /\ \A a \in DOMAIN fs : a > 1 => fs[a] \in {"file", "locked", "missing"}
    /\ sess \in [1..Slots(rec) -> SessionStates]
    /\ \A i \in DOMAIN sess :
          (i \notin Artifacts(rec) \/ rec.parts[i].download.state # "Transcoding")
          => sess[i] = "gone"
    /\ \A i \in DOMAIN sess : i > 1 => sess[i] \in {"active", "gone"}
    /\ call = [op |-> "load"]
    /\ pre = [rec |-> rec, fs |-> fs, sess |-> sess]
    /\ log = << >>
    /\ result = "ok"
    /\ repeat = FALSE
    /\ recached = Nothing
    /\ CodecIdle
    /\ ParIdle

Start == [rec |-> rec, fs |-> fs, sess |-> sess, log |-> << >>, result |-> "ok"]

Finish(e, c) ==
    /\ rec' = e.rec
    /\ fs' = e.fs
    /\ sess' = e.sess
    /\ log' = e.log
    /\ result' = e.result
    /\ pre' = [rec |-> rec, fs |-> fs, sess |-> sess]
    /\ call' = c
    /\ repeat' = (c.op = "update" /\ call.op = "update" /\ c.snap = call.snap)
    /\ recached' = IF c.op = "update" /\ call.op = "recache" /\ c.snap = call.snap
                   THEN Some(call.a)
                   ELSE Nothing
    /\ UNCHANGED <<list, map, wrote, step, tasks>>

\* X::from(item) for an item that has no record: the record it returns is
\* inserted, a panic leaves none.
Construct(r, c) ==
    Finish([Start EXCEPT !.rec = IF IsSome(r) THEN Unwrap(r) ELSE @,
                         !.result = IF IsSome(r) THEN "ok" ELSE "panic"], c)

CollectionFrom ==
    /\ result = "ok" /\ rec = Absent
    /\ \E s \in FromSnapshots("collection") :
          Construct(CollectionState_from(s),
                    [op |-> "from", kind |-> "collection", snap |-> s])

SeasonFrom ==
    /\ result = "ok" /\ rec = Absent
    /\ \E s \in FromSnapshots("season") :
          Construct(SeasonState_from(s),
                    [op |-> "from", kind |-> "season", snap |-> s])

SeasonUpdate ==
    /\ result = "ok" /\ rec.kind = "season"
    /\ \E s \in SnapshotsFor("season") :
          Finish(SeasonState_update(Start, s), [op |-> "season.update", snap |-> s])

ShowFrom ==
    /\ result = "ok" /\ rec = Absent
    /\ \E s \in FromSnapshots("show") :
          Construct(ShowState_from(s), [op |-> "from", kind |-> "show", snap |-> s])

VideoFrom ==
    /\ result = "ok" /\ rec = Absent
    /\ \E type \in {"movie", "episode", "clip"} :
       \E s \in FromSnapshots(type) :
       \E n \in 1..MaxParts :
          Construct(VideoState_from(s, n), [op |-> "from", kind |-> "video", snap |-> s])

ShowUpdate ==
    /\ result = "ok" /\ rec.kind = "show"
    /\ \E s \in SnapshotsFor("show") :
          Finish(ShowState_update(Start, s), [op |-> "update", snap |-> s])

ShowDelete ==
    /\ result = "ok" /\ rec.kind = "show"
    /\ Finish(ShowState_delete(Start), [op |-> "delete"])

CollectionUpdate ==
    /\ result = "ok" /\ rec.kind = "collection"
    /\ \E s \in SnapshotsFor("collection") :
          Finish(CollectionState_update(Start, s), [op |-> "update", snap |-> s])

CollectionDelete ==
    /\ result = "ok" /\ rec.kind = "collection"
    /\ Finish(CollectionState_delete(Start), [op |-> "delete"])

VideoUpdate ==
    /\ result = "ok" /\ rec.kind = "video"
    /\ \E s \in SnapshotsFor(rec.detail.type) :
          Finish(VideoState_update(Start, s), [op |-> "update", snap |-> s])

VideoDelete ==
    /\ result = "ok" /\ rec.kind = "video"
    /\ Finish(VideoState_delete(Start), [op |-> "delete"])

\* VideoState::update with a newer timestamp while the file of one recorded
\* part is removed by someone else in the middle of the call.
VideoUpdateRace ==
    /\ result = "ok" /\ rec.kind = "video"
    /\ \E i \in 1..NParts(rec) :
          /\ Live(rec.parts[i].download) /\ fs[i] = "file"
          /\ \E s \in SnapshotsFor(rec.detail.type) :
                /\ Complete(s) /\ s.metadata_type = rec.detail.type
                /\ IsStale(Unwrap(s.updated_at), rec.last_updated)
                /\ Finish(VideoState_update_race(Start, s, {i}),
                          [op |-> "update.race", snap |-> s, gone |-> {i}])

\* VideoState::delete while the file of one recorded part is removed by
\* someone else in the middle of the call.
VideoDeleteRace ==
    /\ result = "ok" /\ rec.kind = "video"
    /\ \E i \in 1..NParts(rec) :
          /\ Live(rec.parts[i].download) /\ fs[i] = "file"
          /\ Finish(VideoState_delete_race(Start, {i}),
                    [op |-> "delete.race", gone |-> {i}])

\* thumbnail.verify(root) called on its own.
ThumbnailVerify ==
    /\ result = "ok" /\ Reconciled(rec)
    /\ Finish(WithThumb(Start, ThumbnailState_verify(ThumbCtx(Start), 0)),
              [op |-> "thumbnail.verify"])

\* thumbnail.delete(root) called on its own.
ThumbnailDelete ==
    /\ result = "ok" /\ Reconciled(rec)
    /\ Finish(WithThumb(Start, ThumbnailState_delete(ThumbCtx(Start), 0)),
              [op |-> "thumbnail.delete"])

\* parts[i].download.verify(server, root) called on its own.
DownloadVerify ==
    /\ result = "ok" /\ rec.kind = "video"
    /\ \E i \in 1..NParts(rec) :
          Finish(WithPart(Start, i, DownloadState_verify(PartCtx(Start, i), i)),
                 [op |-> "download.verify", part |-> i])

\* parts[i].download.delete(server, root) called on its own.
DownloadDelete ==
    /\ result = "ok" /\ rec.kind = "video"
    /\ \E i \in 1..NParts(rec) :
          Finish(WithPart(Start, i, DownloadState_delete(PartCtx(Start, i), i)),
                 [op |-> "download.delete", part |-> i])

\* The driver caches again an artifact that the update just made
\* invalidated: its file is written and its state recorded.
Recache ==
    /\ result = "ok" /\ call.op = "update"
    /\ IsSome(call.snap.updated_at)
    /\ IsStale(Unwrap(call.snap.updated_at), pre.rec.last_updated)
    /\ \E a \in Artifacts(rec) :
          /\ Live(Artifact(pre.rec, a)) /\ ~Live(Artifact(rec, a))
          /\ Finish([Start EXCEPT
                        !.rec = IF a = 0
                                THEN [@ EXCEPT !.thumbnail = ThumbDownloaded(0)]
                                ELSE [@ EXCEPT !.parts[a].download = Downloaded(a)],
                        !.fs[a] = "file"],
                    [op |-> "recache", a |-> a, snap |-> call.snap])

Next ==
    \/ CollectionFrom
    \/ SeasonFrom
    \/ SeasonUpdate
    \/ ShowFrom
    \/ VideoFrom
    \/ Recache
    \/ ShowUpdate
    \/ ShowDelete
    \/ CollectionUpdate
    \/ CollectionDelete
    \/ VideoUpdate
    \/ VideoDelete
    \/ VideoUpdateRace
    \/ VideoDeleteRace
    \/ ThumbnailVerify
    \/ ThumbnailDelete
    \/ DownloadVerify
    \/ DownloadDelete

Spec == Init /\ [][Next]_vars

\* ------------------------------------------------- the codec on its own
\* No record is reconciled: the (de)serialization of one collection.
EntityIdle ==
    /\ rec = Absent
    /\ fs = [a \in 0..MaxParts |-> "missing"]
    /\ sess = [i \in 1..MaxParts |-> "gone"]
    /\ call = [op |-> "load"]
    /\ pre = [rec |-> rec, fs |-> fs, sess |-> sess]
    /\ log = << >>
    /\ result = "ok"
    /\ repeat = FALSE
    /\ recached = Nothing

\* Either a document with any array is about to be loaded, or the program
\* holds any map it has built and is about to save it.
CodecInit ==
    /\ EntityIdle
    /\ \/ list \in {Some(l) : l \in Lists} /\ map = << >>
       \/ list = Nothing /\ map \in Maps
    /\ wrote = Nothing
    /\ step = "start"
    /\ ParIdle

\* Deserialize of the field: `default` when it is absent, else from_list.
Deserialize ==
    /\ map' = IF IsSome(list) THEN from_list(Unwrap(list)) ELSE << >>
    /\ step' = "from_list"
    /\ UNCHANGED <<list, wrote>>
    /\ UNCHANGED <<rec, fs, sess, call, pre, log, result, repeat, recached, tasks>>

\* Serialize of the field: skipped when the map is empty, else into_list.
Serialize ==
    /\ \/ map = << >> /\ list' = Nothing
       \/ map # << >> /\ \E l \in into_list(map) : list' = Some(l)
    /\ wrote' = Some(map)
    /\ step' = "into_list"
    /\ UNCHANGED map
    /\ UNCHANGED <<rec, fs, sess, call, pre, log, result, repeat, recached, tasks>>

CodecNext == Deserialize \/ Serialize

CodecSpec == CodecInit /\ [][CodecNext]_vars

\* ------------------------------------------- two calls on the same store
\* A call is a future: polled first it runs to its first .await of an I/O;
\* each later step completes the I/O it is suspended at and runs on to the
\* next one.  A task [rec, call, ops, at, log, mixed] is a call on record
\* rec: ops are the artifact operations still to make, each [f, a] with f
\* "verify" or "delete" of artifact a; at is where the first of them stands
\* ("call": not polled yet; "io": at its stat or remove_file; "fetch": at
\* transcode_session; "cancel": at session.cancel; "done": returned); log is
\* the I/O the call has done; mixed records that the call did an I/O while
\* the other call was suspended in the middle of its own.
TaskIds == {"show", "video"}

Other(id) == IF id = "show" THEN "video" ELSE "show"

WithArtifact(r, a, st) ==
    IF a = 0 THEN [r EXCEPT !.thumbnail = st]
    ELSE [r EXCEPT !.parts[a].download = st]

\* The calls made on a record: an update with a complete snapshot that is
\* not newer or newer than the record, or a delete.
Calls(r) ==
    {[op |-> "update", snap |-> s] :
        s \in {x \in SnapshotsFor(Type(r)) :
                  /\ Complete(x) /\ x.metadata_type = Type(r)
                  /\ Unwrap(x.updated_at) - r.last_updated \in {0, 1}}}
    \cup {[op |-> "delete"]}

\* `for part in self.parts.iter_mut()`, each part given the operations fs.
RECURSIVE PartOps(_, _, _)
PartOps(n, i, fs_) ==
    IF i > n THEN << >>
    ELSE [k \in 1..Len(fs_) |-> [f |-> fs_[k], a |-> i]] \o PartOps(n, i + 1, fs_)

\* The artifact operations a call goes through, in order.  Each of them is
\* skipped, or returns at once, when it finds its artifact None.
Program(r, c) ==
    LET stale == c.op = "update"
                 /\ IsStale(Unwrap(c.snap.updated_at), r.last_updated)
        n == NParts(r)
    IN IF c.op = "delete"
       THEN <<[f |-> "verify", a |-> 0], [f |-> "delete", a |-> 0]>>
            \o PartOps(n, 1, <<"verify", "delete">>)
       ELSE <<[f |-> "verify", a |-> 0]>> \o PartOps(n, 1, <<"verify">>)
            \o IF stale
               THEN <<[f |-> "delete", a |-> 0]>> \o PartOps(n, 1, <<"verify">>)
               ELSE << >>

\* The assignments an update makes before its first .await.
Assigned(r, c) ==
    IF c.op = "delete" THEN r
    ELSE LET e == [rec |-> r, log |-> << >>, result |-> "ok"]
         IN IF r.kind = "show"
            THEN [r EXCEPT !.year = Unwrap(c.snap.year), !.title = c.snap.title]
            ELSE IF r.detail.type = "movie"
                 THEN MovieState_update([e EXCEPT !.rec.title = c.snap.title],
                                        c.snap).rec
                 ELSE EpisodeState_update([e EXCEPT !.rec.title = c.snap.title],
                                          c.snap).rec

\* Run on to the next I/O: the operations whose artifact is None do none.
RECURSIVE RunOn(_)
RunOn(t) ==
    IF t.ops = << >> THEN [t EXCEPT !.at = "done"]
    ELSE IF Live(Artifact(t.rec, Head(t.ops).a)) THEN [t EXCEPT !.at = "io"]
         ELSE RunOn([t EXCEPT !.ops = Tail(@)])

\* The artifact operation at the head returns: `*self = None` first when
\* reset.
Return(t, reset) ==
    LET a == Head(t.ops).a
        t1 == IF reset
              THEN [t EXCEPT !.rec = WithArtifact(@, a, [state |-> "None"]),
                             !.log = Append(@, Ev("none", a, a, "ok"))]
              ELSE t
    IN RunOn([t1 EXCEPT !.ops = Tail(@)])

\* One resumption of task t in the store w = [fs, sess]: the new task and
\* the new store.
Resume(t, w) ==
    LET op == Head(t.ops)
        a == op.a
        st == Artifact(t.rec, a)
        c == [st |-> st, fs |-> w.fs, sess |-> w.sess, log |-> t.log]
        transcoding == st.state = "Transcoding"
        Out(t1, c1) == [t |-> t1, fs |-> c1.fs, sess |-> c1.sess]
    IN CASE t.at = "call" ->
              [t |-> RunOn([t EXCEPT !.rec = Assigned(t.rec, t.call),
                                     !.ops = Program(t.rec, t.call)]),
               fs |-> w.fs, sess |-> w.sess]
         [] t.at = "io" /\ op.f = "verify" ->
              \* fs::metadata(&file).await
              LET m == Metadata(w.fs[st.path])
                  t1 == [t EXCEPT !.log = Append(@, Ev("stat", a, st.path, m))]
              IN IF m # "notfound" THEN Out(Return(t1, FALSE), c)
                 ELSE IF transcoding THEN Out([t1 EXCEPT !.at = "fetch"], c)
                      ELSE Out(Return(t1, TRUE), c)
         [] t.at = "io" /\ op.f = "delete" ->
              \* fs::remove_file(&file).await
              LET c1 == RemoveFile(c, a, st.path)
                  t1 == [t EXCEPT !.log = c1.log]
              IN IF transcoding THEN Out([t1 EXCEPT !.at = "fetch"], c1)
                 ELSE Out(Return(t1, TRUE), c1)
         [] t.at = "fetch" ->
              \* server.transcode_session(session_id).await
              LET ok == w.sess[st.session_id] # "gone"
                  t1 == [t EXCEPT !.log = Append(@, Ev("fetch", a, st.session_id,
                                                 IF ok THEN "ok" ELSE "error"))]
              IN IF ok THEN Out([t1 EXCEPT !.at = "cancel"], c)
                 ELSE Out(Return(t1, TRUE), c)
         [] t.at = "cancel" ->
              \* session.cancel().await
              LET ok == w.sess[st.session_id] = "active"
                  t1 == [t EXCEPT !.log = Append(@, Ev("cancel", a, st.session_id,
                                                 IF ok THEN "ok" ELSE "error"))]
                  c1 == [c EXCEPT !.sess[st.session_id] =
                                      IF ok THEN "gone" ELSE @]
              IN Out(Return(t1, TRUE), c1)

\* The call is suspended at an .await in the middle of its I/O.
Suspended(t) == t.at \notin {"call", "done"} /\ t.log # << >>

Task(r, c) ==
    [rec |-> r, call |-> c, ops |-> << >>, at |-> "call", log |-> << >>,
     mixed |-> FALSE]

\* The paths and the sessions the artifacts of a record refer to.
Paths(r) == {Artifact(r, a).path : a \in {x \in Artifacts(r) : Live(Artifact(r, x))}}
Sessions(r) ==
    {r.parts[i].download.session_id :
        i \in {x \in 1..NParts(r) : r.parts[x].download.state = "Transcoding"}}

\* A show and a movie with no thumbnail are loaded, and one call on each is
\* about to run.  The thumbnail of the show is at path 0, part i of the
\* movie at path i with session i; what is at a path is a file, a file
\* that cannot be removed, or nothing.
ParInit ==
    /\ \E th \in ThumbnailStates, d \in DownloadSeqs :
          LET show == ShowRec(1, 1, th)
              video == VideoRec("movie", 1, 1, ThumbNone, d)
          IN /\ tasks \in {[show |-> Task(show, cs), video |-> Task(video, cv)] :
                              cs \in Calls(show), cv \in Calls(video)}
             /\ fs \in [0..MaxParts -> {"file", "locked", "missing"}]
             /\ sess \in [1..MaxParts -> SessionStates]
             /\ \A p \in DOMAIN fs :
                   p \notin Paths(show) \cup Paths(video) => fs[p] = "missing"
             /\ \A i \in DOMAIN sess : i \notin Sessions(video) => sess[i] = "gone"
    /\ pre = [tasks |-> tasks, fs |-> fs, sess |-> sess]
    /\ rec = Absent
    /\ call = [op |-> "load"]
    /\ log = << >>
    /\ result = "ok"
    /\ repeat = FALSE
    /\ recached = Nothing
    /\ CodecIdle

\* The executor polls one of the two futures.
Poll(id) ==
    /\ tasks[id].at # "done"
    /\ LET o == Resume(tasks[id], [fs |-> fs, sess |-> sess])
           io == o.t.log # tasks[id].log
       IN /\ tasks' = [tasks EXCEPT ![id] =
                         [o.t EXCEPT !.mixed = @ \/ (io /\ Suspended(tasks[Other(id)]))]]
          /\ fs' = o.fs
          /\ sess' = o.sess
    /\ UNCHANGED <<rec, call, pre, log, result, repeat, recached,
                   list, map, wrote, step>>

\* ... the call on the show.
PollShow ==
    /\ tasks["video"].at \in {"call", "io", "fetch", "cancel", "done"}
    /\ Poll("show")

\* ... the call on the video.
PollVideo ==
    /\ tasks["show"].at \in {"call", "io", "fetch", "cancel", "done"}
    /\ Poll("video")

ParNext == PollShow \/ PollVideo

ParSpec == ParInit /\ [][ParNext]_vars

\* One call run from its beginning to its end with nothing in between.
Apply(e, c) ==
    CASE e.rec.kind = "show" /\ c.op = "update" -> ShowState_update(e, c.snap)
      [] e.rec.kind = "show" /\ c.op = "delete" -> ShowState_delete(e)
      [] e.rec.kind = "video" /\ c.op = "update" -> VideoState_update(e, c.snap)
      [] e.rec.kind = "video" /\ c.op = "delete" -> VideoState_delete(e)

\* The two calls of the tasks ts run one after the other in the store w,
\* the call on record `first` first: the records, the I/O of each call and
\* the store they end with.
OneAfterTheOther(ts, w, first) ==
    LET second == Other(first)
        e1 == Apply([rec |-> ts[first].rec, fs |-> w.fs, sess |-> w.sess,
                     log |-> << >>, result |-> "ok"], ts[first].call)
        e2 == Apply([rec |-> ts[second].rec, fs |-> e1.fs, sess |-> e1.sess,
                     log |-> << >>, result |-> "ok"], ts[second].call)
        E(id) == IF id = first THEN e1 ELSE e2
    IN [rec |-> [id \in TaskIds |-> E(id).rec],
        log |-> [id \in TaskIds |-> E(id).log],
        fs |-> e2.fs, sess |-> e2.sess]

\* What the two concurrent calls have ended with.
Ended ==
    [rec |-> [id \in TaskIds |-> tasks[id].rec],
     log |-> [id \in TaskIds |-> tasks[id].log],
     fs |-> fs, sess |-> sess]

BothDone == tasks # << >> /\ \A id \in TaskIds : tasks[id].at = "done"

\* ------------------------------------------------------------- vocabulary
Exists(f) == f \in {"file", "locked", "dir"}

\* The last call was an update whose snapshot carries every field read.
CompleteUpdate == call.op = "update" /\ Complete(call.snap)
\* ... and its updated_at is strictly greater than the stored last_updated.
StaleUpdate ==
    CompleteUpdate /\ Unwrap(call.snap.updated_at) > pre.rec.last_updated

Events(ev, a) == {k \in 1..Len(log) : log[k].ev = ev /\ log[k].a = a}
EventsWith(ev, a, res) == {k \in Events(ev, a) : log[k].res = res}
Attempted(ev, a) == Events(ev, a) # {}

\* ---------------------------------------------------------------- claims

\* C1: VideoState update with a remote timestamp strictly greater than
\* last_updated leaves every part that was not None and whose file exists
\* in state None, and has attempted to remove that file.
C1_StalePartsInvalidated ==
    (StaleUpdate /\ rec.kind = "video") =>
        \A i \in 1..NParts(pre.rec) :
            (Live(pre.rec.parts[i].download)
             /\ Metadata(pre.fs[pre.rec.parts[i].download.path]) = "file")
            => /\ rec.parts[i].download = DownloadNone
               /\ Attempted("remove", i)

\* C2: after an update with a remote timestamp U strictly greater than the
\* stored last_updated, the record's last_updated equals U.
C2_TimestampAdopted ==
    StaleUpdate => rec.last_updated = Unwrap(call.snap.updated_at)

\* C3: an update with a remote timestamp strictly greater than last_updated
\* of a record whose thumbnail is Downloaded ends with the thumbnail None and
\* without error, whether the file exists, is missing, or cannot be removed.
C3_ThumbnailInvalidated ==
    (StaleUpdate /\ pre.rec.thumbnail.state = "Downloaded")
    => (rec.thumbnail = ThumbNone /\ result = "ok")

\* C3 witness: a stale update whose removal of the thumbnail file failed.
C3_Witness ==
    /\ StaleUpdate /\ pre.rec.thumbnail.state = "Downloaded"
    /\ EventsWith("remove", 0, "error") # {}
    /\ rec.thumbnail = ThumbNone

\* C4: an update with a remote timestamp less than or equal to last_updated,
\* when every recorded artifact file exists, changes no artifact state,
\* removes no file and cancels no session.
C4_NoInvalidation ==
    (/\ call.op = "update" /\ IsSome(call.snap.updated_at)
     /\ Unwrap(call.snap.updated_at) <= pre.rec.last_updated
     /\ \A a \in Artifacts(pre.rec) :
           Live(Artifact(pre.rec, a)) => Exists(pre.fs[Artifact(pre.rec, a).path]))
    => /\ \A a \in Artifacts(pre.rec) : Artifact(rec, a) = Artifact(pre.rec, a)
       /\ fs = pre.fs /\ sess = pre.sess
       /\ \A k \in 1..Len(log) : log[k].ev = "stat"

\* C4 witness: an update with the stored timestamp of a video whose
\* thumbnail and transcoding part are on disk.
C4_Witness ==
    /\ CompleteUpdate /\ Unwrap(call.snap.updated_at) = pre.rec.last_updated
    /\ rec.kind = "video" /\ result = "ok"
    /\ pre.rec.thumbnail.state = "Downloaded" /\ pre.fs[0] = "file"
    /\ pre.rec.parts[1].download.state = "Transcoding" /\ pre.fs[1] = "file"

\* C5: an update called a second time in a row with the same snapshot leaves
\* the record equal in every field to the record after the first call.
C5_UpdateIdempotent == repeat => rec = pre.rec

\* C5 witness: the second of two stale updates of a video, the first of
\* which invalidated the thumbnail.
C5_Witness ==
    /\ repeat /\ StaleUpdate /\ result = "ok" /\ rec.kind = "video"
    /\ rec.title = call.snap.title
    /\ pre.fs[0] = "locked" /\ rec.thumbnail = ThumbNone
\* C6 as claimed: DownloadState delete on Transcoding ends in None, attempts
\* the removal of the file and invokes the cancel of the session exactly
\* once, whatever the file and the removal did.
C6_CancelExactlyOnce ==
    (call.op = "download.delete"
     /\ pre.rec.parts[call.part].download.state = "Transcoding")
    => /\ rec.parts[call.part].download = DownloadNone
       /\ Cardinality(Events("remove", call.part)) = 1
       /\ Cardinality(Events("cancel", call.part)) = 1

\* C6 amended: DownloadState delete on Transcoding ends in None, attempts
\* the removal of the recorded path once and fetches the recorded session
\* once, whatever the file and the removal did; it invokes the cancel once
\* when that fetch succeeds and not at all when it fails.
C6_DeleteCancelsFetchedSession ==
    (call.op = "download.delete"
     /\ pre.rec.parts[call.part].download.state = "Transcoding")
    => LET d == pre.rec.parts[call.part].download
           removes == Events("remove", call.part)
           fetches == Events("fetch", call.part)
           cancels == Events("cancel", call.part)
       IN /\ rec.parts[call.part].download = DownloadNone
          /\ Cardinality(removes) = 1
          /\ \A k \in removes : log[k].obj = d.path
          /\ Cardinality(fetches) = 1
          /\ \A k \in fetches : log[k].obj = d.session_id
          /\ \A k \in cancels : log[k].obj = d.session_id
          /\ Cardinality(cancels) =
                IF pre.sess[d.session_id] = "gone" THEN 0 ELSE 1

\* C6 witness: a delete of a transcoding part whose file could not be
\* removed and whose session was cancelled.
C6_Witness ==
    /\ call.op = "download.delete"
    /\ pre.rec.parts[call.part].download.state = "Transcoding"
    /\ EventsWith("remove", call.part, "error") # {}
    /\ EventsWith("cancel", call.part, "ok") # {}
    /\ rec.parts[call.part].download = DownloadNone

\* C7: after the delete of a show, collection or video the thumbnail and
\* every part are None, for every outcome of stat, removal and cancel.
C7_DeleteLeavesNone ==
    call.op = "delete" => \A a \in Artifacts(rec) : Artifact(rec, a) = [state |-> "None"]

\* C7 witness: a video delete in which a removal and a cancel failed.
C7_Witness ==
    /\ call.op = "delete" /\ rec.kind = "video"
    /\ \E k \in 1..Len(log) : log[k].ev = "remove" /\ log[k].res = "error"
    /\ \E k \in 1..Len(log) : log[k].ev = "cancel" /\ log[k].res = "error"
    /\ \A a \in Artifacts(rec) : ~Live(Artifact(rec, a))

\* C8 as claimed: after an entity delete no file is left at any path an
\* artifact recorded and no session a part referenced is still on the
\* server.
C8_OrphansReclaimed ==
    call.op = "delete" =>
        \A a \in Artifacts(pre.rec) :
            LET st == Artifact(pre.rec, a)
            IN /\ Live(st) => Metadata(fs[st.path]) # "file"
               /\ st.state = "Transcoding" =>
                     (pre.sess[st.session_id] # "gone" => sess[st.session_id] = "gone")

\* C8 amended: after an entity delete every path an artifact recorded is
\* absent or its removal was attempted and failed, and every session a part
\* referenced is cancelled unless its fetch or its cancel was attempted and
\* failed.
C8_OrphansReclaimedOrTried ==
    call.op = "delete" =>
        \A a \in Artifacts(pre.rec) :
            LET st == Artifact(pre.rec, a)
            IN /\ Live(st) =>
                     \/ fs[st.path] = "missing"
                     \/ \E k \in EventsWith("remove", a, "error") : log[k].obj = st.path
               /\ st.state = "Transcoding" =>
                     \/ \E k \in EventsWith("cancel", a, "ok") :
                           log[k].obj = st.session_id /\ sess[st.session_id] = "gone"
                     \/ \E k \in EventsWith("fetch", a, "error") : log[k].obj = st.session_id
                     \/ \E k \in EventsWith("cancel", a, "error") : log[k].obj = st.session_id

\* C8 witness: a video delete that removed the file of a transcoding part
\* whose file was there and cancelled its session.
C8_Witness ==
    /\ call.op = "delete" /\ rec.kind = "video"
    /\ pre.rec.parts[1].download.state = "Transcoding"
    /\ pre.fs[1] = "file" /\ fs[1] = "missing"
    /\ pre.sess[1] = "active" /\ sess[1] = "gone"

\* C9: ThumbnailState verify on Downloaded{path} turns the state to None,
\* without error, when the file does not exist, and leaves it unchanged when
\* the file exists and is a regular file.
C9_ThumbnailSelfHeals ==
    (call.op = "thumbnail.verify" /\ pre.rec.thumbnail.state = "Downloaded")
    => /\ pre.fs[pre.rec.thumbnail.path] = "missing"
            => (rec.thumbnail = ThumbNone /\ result = "ok")
       /\ Metadata(pre.fs[pre.rec.thumbnail.path]) = "file"
            => (rec.thumbnail = pre.rec.thumbnail /\ result = "ok")

\* C9 witness: a verify that found the thumbnail file missing.
C9_Witness ==
    /\ call.op = "thumbnail.verify" /\ pre.rec.thumbnail.state = "Downloaded"
    /\ pre.fs[pre.rec.thumbnail.path] = "missing"
    /\ rec.thumbnail = ThumbNone

\* C10: DownloadState verify on a state that is not None and whose file is
\* not found ends in None; on Transcoding it first tries to cancel that
\* session (fetches it and, once fetched, cancels it), and a cancel that
\* fails does not prevent the transition.
C10_VerifyMissingFile ==
    (/\ call.op = "download.verify"
     /\ Live(pre.rec.parts[call.part].download)
     /\ pre.fs[pre.rec.parts[call.part].download.path] = "missing")
    => LET d == pre.rec.parts[call.part].download
           fetches == Events("fetch", call.part)
           cancels == Events("cancel", call.part)
           resets == Events("none", call.part)
       IN /\ rec.parts[call.part].download = DownloadNone
          /\ Cardinality(resets) = 1
          /\ d.state = "Transcoding" =>
                /\ Cardinality(fetches) = 1
                /\ \A k \in fetches : log[k].obj = d.session_id
                /\ \A k \in fetches \cup cancels : \A n \in resets : k < n
                /\ pre.sess[d.session_id] # "gone" =>
                      \E k \in cancels : log[k].obj = d.session_id
          /\ d.state # "Transcoding" => fetches \cup cancels = {}

\* C10 witness: a verify of a transcoding part whose file is missing and
\* whose session could not be cancelled.
C10_Witness ==
    /\ call.op = "download.verify"
    /\ pre.rec.parts[call.part].download.state = "Transcoding"
    /\ pre.fs[pre.rec.parts[call.part].download.path] = "missing"
    /\ EventsWith("cancel", call.part, "error") # {}
    /\ rec.parts[call.part].download = DownloadNone

\* C11: DownloadState verify on Downloading, Transcoding, Downloaded or
\* Transcoded whose recorded path exists on disk leaves the state (variant,
\* path, session id) unchanged, removes no file and cancels no session.
C11_VerifyTrustsPresentFile ==
    (/\ call.op = "download.verify"
     /\ Live(pre.rec.parts[call.part].download)
     /\ Exists(pre.fs[pre.rec.parts[call.part].download.path]))
    => /\ rec.parts[call.part].download = pre.rec.parts[call.part].download
       /\ fs = pre.fs /\ sess = pre.sess
       /\ \A k \in 1..Len(log) : log[k].ev = "stat"
       /\ result = "ok"

\* C11 witness: a verify of a transcoding part whose file is on disk and
\* whose session is running.
C11_Witness ==
    /\ call.op = "download.verify"
    /\ pre.rec.parts[call.part].download.state = "Transcoding"
    /\ pre.fs[pre.rec.parts[call.part].download.path] = "file"
    /\ pre.sess[pre.rec.parts[call.part].download.session_id] = "active"
    /\ rec.parts[call.part].download = pre.rec.parts[call.part].download
    /\ sess = pre.sess

\* The last call was a verify, update or delete of an entity or of one of
\* its artifacts.
ReconcileCall ==
    call.op \in {"update", "delete", "thumbnail.verify", "thumbnail.delete",
                 "download.verify", "download.delete"}

StatNotFound(a) == EventsWith("stat", a, "notfound") # {}
Failed(a) ==
    \/ EventsWith("stat", a, "error") # {}
    \/ EventsWith("remove", a, "error") # {}
    \/ EventsWith("fetch", a, "error") # {}
    \/ EventsWith("cancel", a, "error") # {}

\* C12 as claimed: inside verify, update and delete only a not-found stat
\* moves an artifact to None; when a stat fails for another reason, a
\* removal fails or a cancel fails, the artifact state stays as recorded.
C12_OnlyNotFoundResets ==
    ReconcileCall =>
        \A a \in Artifacts(pre.rec) :
            Live(Artifact(pre.rec, a)) =>
                /\ Artifact(rec, a) # Artifact(pre.rec, a) => StatNotFound(a)
                /\ Failed(a) => Artifact(rec, a) = Artifact(pre.rec, a)

\* C12 amended: inside verify, update and delete an artifact moves to None
\* exactly when a stat of its path reports not-found or its delete
\* operation runs; a stat that fails for another reason leaves the state as
\* recorded, and a removal or cancel that fails does not keep the artifact
\* from becoming None.
C12_ResetOnNotFoundOrDelete ==
    ReconcileCall =>
        \A a \in Artifacts(pre.rec) :
            Live(Artifact(pre.rec, a)) =>
                IF StatNotFound(a) \/ Attempted("remove", a)
                THEN Artifact(rec, a) = [state |-> "None"]
                ELSE Artifact(rec, a) = Artifact(pre.rec, a)

\* C12 witness: a video delete whose verify could not stat the file of a
\* transcoding part and left it recorded, and whose delete of that part
\* ended in None although the removal and the cancel failed.
C12_Witness ==
    /\ call.op = "delete" /\ rec.kind = "video"
    /\ pre.rec.parts[1].download.state = "Transcoding"
    /\ EventsWith("stat", 1, "error") # {}
    /\ EventsWith("remove", 1, "error") # {}
    /\ EventsWith("cancel", 1, "error") # {}
    /\ rec.parts[1].download = DownloadNone
\* C13: after from_list of any array, arrays with repeated ids included,
\* every entry (k, v) of the resulting map satisfies k = v.id.
C13_KeyConsistency ==
    step = "from_list" => \A k \in DOMAIN map : ListItem_id(map[k]) = k

\* C13 witness: a map deserialized from an array that holds two different
\* records of one id; the map holds the later one under that id.
C13_Witness ==
    /\ step = "from_list" /\ IsSome(list)
    /\ \E i, j \in DOMAIN Unwrap(list) :
          /\ i < j
          /\ Unwrap(list)[i].id = Unwrap(list)[j].id
          /\ Unwrap(list)[i] # Unwrap(list)[j]
          /\ map[Unwrap(list)[j].id] = Unwrap(list)[j]
          /\ \A n \in DOMAIN Unwrap(list) : n <= j

\* C14: a map serialized with into_list and deserialized with from_list is
\* the original map (the same ids, each mapped to an equal record), whatever
\* the order of the records in the array.
C14_RoundTrip ==
    (step = "from_list" /\ IsSome(wrote)) => map = Unwrap(wrote)

\* C14 witness: a map of two records read back from an array that lists
\* the record of the greater id first.
C14_Witness ==
    /\ step = "from_list" /\ IsSome(wrote) /\ IsSome(list)
    /\ Len(Unwrap(list)) = 2
    /\ Unwrap(list)[1].id > Unwrap(list)[2].id
    /\ Cardinality(DOMAIN map) = 2
    /\ map = Unwrap(wrote)

\* C15: over from, update, verify and delete calls on a record, with remote
\* timestamps in any order, no call lowers the record's last_updated, and no
\* call other than update changes it.
C15_LastUpdatedMonotone ==
    (Reconciled(pre.rec) /\ Reconciled(rec)) =>
        /\ rec.last_updated >= pre.rec.last_updated
        /\ rec.last_updated # pre.rec.last_updated => call.op = "update"

\* C15 witness: a record constructed with the latest timestamp is updated
\* with the oldest one and keeps its last_updated.
C15_Witness ==
    /\ call.op = "update" /\ result = "ok"
    /\ pre.rec.last_updated = MaxTime
    /\ IsSome(call.snap.updated_at) /\ Unwrap(call.snap.updated_at) = 0
    /\ rec.last_updated = MaxTime

\* The last call was VideoState::update or VideoState::from.
VideoCall ==
    \/ call.op = "update" /\ pre.rec.kind = "video"
    \/ call.op = "from" /\ call.kind = "video"
Recognized(s) == s.metadata_type \in {"movie", "episode"}
\* The snapshot lacks a field a video of that type requires.
Lacking(s, type) ==
    \/ ~IsSome(s.updated_at)
    \/ type = "movie" /\ ~IsSome(s.year)
    \/ type = "episode" /\ (~IsSome(s.index) \/ ~IsSome(s.parent_rating_key))

\* C16: VideoState update or from with a snapshot of an unrecognized type
\* returns ItemNotSupported, with a snapshot that lacks year, index, parent
\* key or updated_at returns ItemIncomplete, in both cases without aborting
\* and without storing anything; an update otherwise succeeds and keeps the
\* record's detail variant.
C16_FailureReported ==
    VideoCall =>
        LET s == call.snap
            type == IF call.op = "update" THEN pre.rec.detail.type
                    ELSE s.metadata_type
        IN /\ result # "panic"
           /\ ~Recognized(s) => (result = "ItemNotSupported" /\ rec = pre.rec)
           /\ (Recognized(s) /\ Lacking(s, type))
                 => (result = "ItemIncomplete" /\ rec = pre.rec)
           /\ (call.op = "update" /\ Recognized(s) /\ ~Lacking(s, type))
                 => (result = "ok" /\ rec.detail.type = pre.rec.detail.type)

\* C17: an update with a remote timestamp U greater than last_updated, then
\* the re-caching of an artifact it invalidated, then an update with the
\* same snapshot: the second update leaves the state and the file of the
\* re-cached artifact as they were.
C17_RecachedSurvives ==
    IsSome(recached) =>
        /\ Artifact(rec, Unwrap(recached)) = Artifact(pre.rec, Unwrap(recached))
        /\ fs[Unwrap(recached)] = pre.fs[Unwrap(recached)]

\* C18: after an update the parent reference of the record equals the one of
\* the remote snapshot: the library of a show, a collection and a movie, the
\* show of a season, the season of an episode.
C18_ParentOverwritten ==
    (call.op \in {"update", "season.update"} /\ result = "ok") =>
        CASE rec.kind \in {"show", "collection"} ->
                 rec.library = Unwrap(call.snap.library_section_id)
          [] rec.kind = "season" ->
                 rec.show = Unwrap(call.snap.parent_rating_key)
          [] rec.kind = "video" /\ rec.detail.type = "movie" ->
                 rec.detail.library = Unwrap(call.snap.library_section_id)
          [] rec.kind = "video" /\ rec.detail.type = "episode" ->
                 rec.detail.season = Unwrap(call.snap.parent_rating_key)

\* An artifact verify starts with the stat of the path and an artifact
\* delete with remove_file: the stat or removal that opened the artifact
\* operation to which event k of the log belongs.
Opener(k) ==
    LET js == {j \in 1..k : log[j].a = log[k].a /\ log[j].ev \in {"stat", "remove"}}
    IN log[CHOOSE j \in js : \A i \in js : i <= j]
Cancels == {k \in 1..Len(log) : log[k].ev = "cancel"}
Removes == {k \in 1..Len(log) : log[k].ev = "remove"}
\* The last call was an artifact verify on its own, or an update with a
\* timestamp that is not newer: calls in which no artifact delete runs.
VerifyOnly ==
    \/ call.op \in {"thumbnail.verify", "download.verify"}
    \/ /\ call.op = "update" /\ IsSome(call.snap.updated_at)
       /\ ~IsStale(Unwrap(call.snap.updated_at), pre.rec.last_updated)

\* C19 as claimed: across verify, update and delete a file is removed and a
\* transcode session is cancelled only inside an artifact delete; an
\* artifact verify changes nothing but the recorded state.
C19_OnlyDeleteDestroys ==
    ReconcileCall =>
        /\ \A k \in Cancels : Opener(k).ev = "remove"
        /\ VerifyOnly => (Removes = {} /\ fs = pre.fs /\ sess = pre.sess)

\* C19 amended: a file is removed only inside an artifact delete; a
\* transcode session is cancelled inside an artifact delete and inside the
\* verify of a Transcoding download whose file is not found, nowhere else; an
\* artifact verify changes nothing else but the recorded state.
C19_VerifyCancelsOnlyOrphan ==
    ReconcileCall =>
        /\ \A k \in Cancels :
              \/ Opener(k).ev = "remove"
              \/ /\ Opener(k).ev = "stat" /\ Opener(k).res = "notfound"
                 /\ Artifact(pre.rec, log[k].a).state = "Transcoding"
                 /\ log[k].obj = Artifact(pre.rec, log[k].a).session_id
        /\ VerifyOnly =>
              /\ Removes = {} /\ fs = pre.fs
              /\ \A i \in DOMAIN sess :
                    sess[i] # pre.sess[i] =>
                        /\ pre.rec.parts[i].download = Transcoding(i, i)
                        /\ pre.fs[i] = "missing"
                        /\ rec.parts[i].download = DownloadNone

\* C19 witness: a verify on its own of a transcoding part whose file is
\* missing: the session is cancelled, no path is touched.
C19_Witness ==
    /\ call.op = "download.verify"
    /\ pre.rec.parts[call.part].download.state = "Transcoding"
    /\ pre.sess[call.part] = "active" /\ sess[call.part] = "gone"
    /\ EventsWith("cancel", call.part, "ok") # {}
    /\ fs = pre.fs /\ Removes = {}

\* C20: in an entity update every artifact that was recorded has been
\* verified before anything is removed on the strength of the timestamp
\* comparison; in an entity update or delete the removal of an artifact's
\* file comes after the verify of that artifact, which found the path
\* there, and an artifact whose verify found nothing is not cleaned up.
C20_VerifyPrecedesJudgement ==
    call.op \in {"update", "delete"} =>
        /\ \A k \in Removes :
              /\ \E j \in 1..(k - 1) :
                    /\ log[j].ev = "stat" /\ log[j].a = log[k].a
                    /\ log[j].res # "notfound"
              /\ call.op = "update" =>
                    \A b \in Artifacts(pre.rec) :
                        Live(Artifact(pre.rec, b)) =>
                            \E j \in 1..(k - 1) : log[j].ev = "stat" /\ log[j].a = b
        /\ \A a \in Artifacts(pre.rec) : StatNotFound(a) => ~Attempted("remove", a)

\* C20 witness: an update of a video with a newer timestamp that removed
\* the thumbnail after it had verified a part that is recorded.
C20_Witness ==
    /\ call.op = "update" /\ rec.kind = "video" /\ result = "ok"
    /\ Live(pre.rec.parts[1].download)
    /\ EventsWith("remove", 0, "ok") # {}
    /\ rec.thumbnail = ThumbNone
\* C22: ThumbnailState verify on Downloaded{path}, and DownloadState verify
\* on every state that is not None, whose recorded path exists but is not a
\* regular file, or whose stat fails for a reason other than not-found,
\* leaves the state unchanged and returns without error.
C22_VerifyKeepsOnTrouble ==
    /\ (/\ call.op = "thumbnail.verify" /\ Live(pre.rec.thumbnail)
        /\ Metadata(pre.fs[pre.rec.thumbnail.path]) \in {"notfile", "error"})
       => (rec.thumbnail = pre.rec.thumbnail /\ result = "ok")
    /\ (/\ call.op = "download.verify" /\ Live(pre.rec.parts[call.part].download)
        /\ Metadata(pre.fs[pre.rec.parts[call.part].download.path])
              \in {"notfile", "error"})
       => /\ rec.parts[call.part].download = pre.rec.parts[call.part].download
          /\ result = "ok"

\* C22 witness: a thumbnail verify whose stat failed with an error other
\* than not-found and that kept Downloaded.
C22_Witness ==
    /\ call.op = "thumbnail.verify"
    /\ pre.rec.thumbnail = ThumbDownloaded(0) /\ pre.fs[0] = "denied"
    /\ EventsWith("stat", 0, "error") # {}
    /\ rec.thumbnail = ThumbDownloaded(0) /\ result = "ok"

\* C23: ThumbnailState delete and DownloadState delete called in state None
\* leave the state None and perform no stat, no removal and no session fetch
\* or cancel; and since every delete ends in None, a delete called again
\* right after a delete changes nothing more.
C23_DeleteNoopOnNone ==
    /\ call.op = "thumbnail.delete" =>
          /\ rec.thumbnail = ThumbNone
          /\ pre.rec.thumbnail = ThumbNone =>
                (rec = pre.rec /\ fs = pre.fs /\ sess = pre.sess /\ log = << >>)
    /\ call.op = "download.delete" =>
          /\ rec.parts[call.part].download = DownloadNone
          /\ pre.rec.parts[call.part].download = DownloadNone =>
                (rec = pre.rec /\ fs = pre.fs /\ sess = pre.sess /\ log = << >>)

\* C23 witness: a thumbnail delete in state None while the file that an
\* earlier delete failed to remove is still at the old path.
C23_Witness ==
    /\ call.op = "thumbnail.delete"
    /\ pre.rec.thumbnail = ThumbNone /\ pre.fs[0] = "locked"
    /\ rec.thumbnail = ThumbNone /\ fs[0] = "locked" /\ log = << >>

\* C25: over verify, update and delete calls on any entity each artifact
\* state stays exactly as it was or becomes None, and the id of the record
\* and the number of its parts do not change.
C25_OnlyTowardNone ==
    ReconcileCall =>
        /\ rec.id = pre.rec.id /\ rec.kind = pre.rec.kind
        /\ NParts(rec) = NParts(pre.rec)
        /\ \A a \in Artifacts(pre.rec) :
              \/ Artifact(rec, a) = Artifact(pre.rec, a)
              \/ Artifact(rec, a) = [state |-> "None"]

\* C25 witness: a video update that reset the thumbnail and left a
\* downloading part exactly as recorded.
C25_Witness ==
    /\ call.op = "update" /\ rec.kind = "video"
    /\ pre.rec.thumbnail = ThumbDownloaded(0) /\ rec.thumbnail = ThumbNone
    /\ pre.rec.parts[1].download = Downloading(1)
    /\ rec.parts[1].download = Downloading(1)
\* C24: during one VideoState update or delete the cancel of the transcode
\* session a part refers to is attempted at most once (the session is fetched
\* at most once and cancelled at most once), also when the file of the part
\* disappears between the verify and the delete, or between the two
\* verifies, of that part.
C24_AtMostOneCancel ==
    (call.op \in {"update", "delete", "update.race", "delete.race"}
     /\ pre.rec.kind = "video")
    => \A i \in 1..NParts(pre.rec) :
          /\ Cardinality(Events("fetch", i)) <= 1
          /\ Cardinality(Events("cancel", i)) <= 1
          /\ \A k \in Events("fetch", i) \cup Events("cancel", i) :
                /\ pre.rec.parts[i].download.state = "Transcoding"
                /\ log[k].obj = pre.rec.parts[i].download.session_id

\* C24 witness: an update with a newer timestamp of a video whose
\* transcoding part was on disk at the first verify and gone at the second,
\* which cancelled the session once.
C24_Witness ==
    /\ call.op = "update.race" /\ result = "ok"
    /\ pre.rec.parts[1].download.state = "Transcoding"
    /\ EventsWith("stat", 1, "file") # {}
    /\ EventsWith("stat", 1, "notfound") # {}
    /\ Cardinality(Events("cancel", 1)) = 1
    /\ rec.parts[1].download = DownloadNone
\* C21: the calls on two distinct records whose artifacts use disjoint paths
\* and disjoint transcode sessions, interleaved at their I/O (stat, remove,
\* session fetch, cancel) in any way, end with the same records, the same
\* files on disk and the same sessions cancelled (and each call with the
\* same I/O) as the two calls run one after the other, in either order.
C21_IndependentCommute ==
    (/\ BothDone
     /\ Paths(pre.tasks["show"].rec) \cap Paths(pre.tasks["video"].rec) = {}
     /\ Sessions(pre.tasks["show"].rec) \cap Sessions(pre.tasks["video"].rec) = {})
    => \A first \in TaskIds : Ended = OneAfterTheOther(pre.tasks, pre, first)

\* C21 witness: a delete of the show and a delete of the video have both
\* returned; each did I/O while the other was suspended in the middle of
\* its own; the show removed its thumbnail and the video cancelled the
\* session of a part.
C21_Witness ==
    /\ BothDone
    /\ tasks["show"].mixed /\ tasks["video"].mixed
    /\ tasks["show"].call.op = "delete" /\ tasks["video"].call.op = "delete"
    /\ \E k \in 1..Len(tasks["show"].log) :
          tasks["show"].log[k].ev = "remove" /\ tasks["show"].log[k].res = "ok"
    /\ \E k \in 1..Len(tasks["video"].log) :
          tasks["video"].log[k].ev = "cancel" /\ tasks["video"].log[k].res = "ok"
    /\ fs = [p \in DOMAIN fs |-> "missing"]
====
